---- MODULE Spec2Model ----
(***************************************************************************)
(* Model of the transaction engine (src/src/engine.rs).                    *)
(*                                                                         *)
(* Two specifications share the definitions of the account state machine: *)
(*   SpecAccount  one Account driven directly through handle_transaction,  *)
(*                as the unit tests of engine.rs drive it;                 *)
(*   Spec         Engine::process reading a stream of records, routing     *)
(*                them to per-client accounts and writing the snapshot.    *)
(*                                                                         *)
(* Decimal amounts are modelled as integers counting units of 10^-4        *)
(* (Decimal::new(n, PRECISION)); Decimal arithmetic is exact and Decimal   *)
(* equality is numeric, so Int arithmetic is the same within the bounds.   *)
(***************************************************************************)
EXTENDS Integers, FiniteSets, Sequences, TLC

\* ---------------------------------------------------------------- bounds
MaxAmount == 1
MaxTxId == 3
MaxClient == 2
MaxCalls == 4
MaxRecords == 2
MaxStreamTxId == 1
MaxStreamAmount == 1

\* Decimal::from_str accepts a sign: -1 stands for the negative amounts.
\* SpecAccount draws its calls from these
Amounts == {-1} \cup 0..MaxAmount
TransactionIds == 1..MaxTxId
\* Spec draws the records of the input stream from these (amounts: zero and
\* positive; negative amounts are exercised by SpecAccount)
ClientIds == 1..MaxClient
StreamAmounts == 0..MaxStreamAmount
StreamTransactionIds == 1..MaxStreamTxId

\* ---------------------------------------------------------------- types
Action == {"Deposit", "Withdrawal", "Dispute", "Resolve", "Chargeback"}

Recoverable == {"AccountBalanceNotEnough", "LockedAccount", "UndefinedBehaviour",
                "NonExistingTransactionId", "DuplicatedTransactionId",
                "NotUnderDispute"}

Fatal == {"UndefinedAction", "DecimalParseError", "IntParseError", "FileOpenError"}

\* Transaction { action_type, client_id, transaction_id, decimal, is_under_dispute };
\* Option<Decimal> is a sequence: <<a>> for Some(a), <<>> for None.
Transaction(a, c, t, d, u) ==
    [action_type |-> a, client_id |-> c, transaction_id |-> t,
     decimal |-> d, is_under_dispute |-> u]

\* Transaction::from_record on a record whose fields all parse: the amount
\* is read for deposit and withdrawal only.
from_record(a, c, t, amt) ==
    IF a \in {"Deposit", "Withdrawal"}
    THEN Transaction(a, c, t, <<amt>>, FALSE)
    ELSE Transaction(a, c, t, <<>>, FALSE)

\* The transactions from_record can build for one client in the input stream.
TransactionsOf(c) ==
    {from_record(a, c, t, amt) :
        a \in {"Deposit", "Withdrawal"}, t \in StreamTransactionIds, amt \in StreamAmounts}
    \cup {from_record(a, c, t, 0) :
        a \in {"Dispute", "Resolve", "Chargeback"}, t \in StreamTransactionIds}

NoTransaction == Transaction("None", 0, 0, <<>>, FALSE)

EmptyMap == [k \in {} |-> NoTransaction]

\* Account::new
AccountNew(c) ==
    [client_id |-> c, transactions |-> EmptyMap, is_locked |-> FALSE,
     available |-> 0, held |-> 0, total |-> 0]

Err(acct, e) == [account |-> acct, result |-> e]

\* assert_eq!(self.total, self.available + self.held); Ok(())
Finish(acct) ==
    [account |-> acct,
     result |-> IF acct.total = acct.available + acct.held
                THEN "Ok" ELSE "AssertionFailed"]

\* mutant: the deposit is not added to total
HandleDeposit_NoTotal(acct, t) ==
    IF t.transaction_id \in DOMAIN acct.transactions
    THEN Err(acct, "DuplicatedTransactionId")
    ELSE Finish([acct EXCEPT
            !.available = @ + t.decimal[1],
            !.transactions = (t.transaction_id :> t) @@ @])

\* mutant: no duplicate-id check, the insert replaces the stored transaction
HandleDeposit_Overwrite(acct, t) ==
    Finish([acct EXCEPT
            !.available = @ + t.decimal[1],
            !.total = @ + t.decimal[1],
            !.transactions = (t.transaction_id :> t) @@ @])

HandleDeposit(acct, t) ==
    IF t.transaction_id \in DOMAIN acct.transactions
    THEN Err(acct, "DuplicatedTransactionId")
    ELSE Finish([acct EXCEPT
            !.available = @ + t.decimal[1],
            !.total = @ + t.decimal[1],
            !.transactions = (t.transaction_id :> t) @@ @])

\* mutant: the balances are debited before the balance check
HandleWithdrawal_DebitFirst(acct, t) ==
    IF t.transaction_id \in DOMAIN acct.transactions
    THEN Err(acct, "DuplicatedTransactionId")
    ELSE LET debited == [acct EXCEPT !.available = @ - t.decimal[1],
                                     !.total = @ - t.decimal[1]] IN
         IF debited.available < 0
         THEN Err(debited, "AccountBalanceNotEnough")
         ELSE Finish([debited EXCEPT
                !.transactions = (t.transaction_id :> t) @@ @])

\* mutant: a withdrawal of everything available is refused
HandleWithdrawal_Strict(acct, t) ==
    IF t.transaction_id \in DOMAIN acct.transactions
    THEN Err(acct, "DuplicatedTransactionId")
    ELSE IF acct.available <= t.decimal[1]
    THEN Err(acct, "AccountBalanceNotEnough")
    ELSE Finish([acct EXCEPT
            !.available = @ - t.decimal[1],
            !.total = @ - t.decimal[1],
            !.transactions = (t.transaction_id :> t) @@ @])

\* mutant: the amount is compared with total, so held funds count
HandleWithdrawal_AgainstTotal(acct, t) ==
    IF t.transaction_id \in DOMAIN acct.transactions
    THEN Err(acct, "DuplicatedTransactionId")
    ELSE IF acct.total < t.decimal[1]
    THEN Err(acct, "AccountBalanceNotEnough")
    ELSE Finish([acct EXCEPT
            !.available = @ - t.decimal[1],
            !.total = @ - t.decimal[1],
            !.transactions = (t.transaction_id :> t) @@ @])

\* mutant: the withdrawal is stored before the balance is checked
HandleWithdrawal_StoreFirst(acct, t) ==
    IF t.transaction_id \in DOMAIN acct.transactions
    THEN Err(acct, "DuplicatedTransactionId")
    ELSE IF acct.available < t.decimal[1]
    THEN Err([acct EXCEPT !.transactions = (t.transaction_id :> t) @@ @],
             "AccountBalanceNotEnough")
    ELSE Finish([acct EXCEPT
            !.available = @ - t.decimal[1],
            !.total = @ - t.decimal[1],
            !.transactions = (t.transaction_id :> t) @@ @])

HandleWithdrawal(acct, t) ==
    IF t.transaction_id \in DOMAIN acct.transactions
    THEN Err(acct, "DuplicatedTransactionId")
    ELSE IF acct.available < t.decimal[1]
    THEN Err(acct, "AccountBalanceNotEnough")
    ELSE Finish([acct EXCEPT
            !.available = @ - t.decimal[1],
            !.total = @ - t.decimal[1],
            !.transactions = (t.transaction_id :> t) @@ @])

\* mutant: the stored transaction is not marked as under dispute
HandleDispute_NoFlag(acct, t) ==
    IF t.transaction_id \notin DOMAIN acct.transactions
    THEN Err(acct, "NonExistingTransactionId")
    ELSE LET original_transaction == acct.transactions[t.transaction_id] IN
         IF original_transaction.action_type = "Deposit"
         THEN Finish([acct EXCEPT
                !.available = @ - original_transaction.decimal[1],
                !.held = @ + original_transaction.decimal[1]])
         ELSE Err(acct, "UndefinedBehaviour")

\* mutant: a stored withdrawal can be disputed like a deposit
HandleDispute_AnyStored(acct, t) ==
    IF t.transaction_id \notin DOMAIN acct.transactions
    THEN Err(acct, "NonExistingTransactionId")
    ELSE LET original_transaction == acct.transactions[t.transaction_id] IN
         Finish([acct EXCEPT
                !.available = @ - original_transaction.decimal[1],
                !.held = @ + original_transaction.decimal[1],
                !.transactions[t.transaction_id].is_under_dispute = TRUE])

HandleDispute(acct, t) ==
    IF t.transaction_id \notin DOMAIN acct.transactions
    THEN Err(acct, "NonExistingTransactionId")
    ELSE LET original_transaction == acct.transactions[t.transaction_id] IN
         IF original_transaction.action_type = "Deposit"
         THEN Finish([acct EXCEPT
                !.available = @ - original_transaction.decimal[1],
                !.held = @ + original_transaction.decimal[1],
                !.transactions[t.transaction_id].is_under_dispute = TRUE])
         ELSE Err(acct, "UndefinedBehaviour")

\* mutant: the dispute flag is left set
HandleResolve_KeepFlag(acct, t) ==
    IF t.transaction_id \notin DOMAIN acct.transactions
    THEN Err(acct, "NonExistingTransactionId")
    ELSE LET original_transaction == acct.transactions[t.transaction_id] IN
         IF original_transaction.action_type = "Deposit"
         THEN IF original_transaction.is_under_dispute
              THEN Finish([acct EXCEPT
                     !.available = @ + original_transaction.decimal[1],
                     !.held = @ - original_transaction.decimal[1]])
              ELSE Err(acct, "NotUnderDispute")
         ELSE Err(acct, "UndefinedBehaviour")

\* mutant: a Resolve naming an id the account does not store is accepted
HandleResolve_MissingOk(acct, t) ==
    IF t.transaction_id \notin DOMAIN acct.transactions
    THEN Finish(acct)
    ELSE LET original_transaction == acct.transactions[t.transaction_id] IN
         IF original_transaction.action_type = "Deposit"
         THEN IF original_transaction.is_under_dispute
              THEN Finish([acct EXCEPT
                     !.available = @ + original_transaction.decimal[1],
                     !.held = @ - original_transaction.decimal[1],
                     !.transactions[t.transaction_id].is_under_dispute = FALSE])
              ELSE Err(acct, "NotUnderDispute")
         ELSE Err(acct, "UndefinedBehaviour")

\* mutant: the dispute flag is tested before the type of the stored transaction
HandleResolve_FlagFirst(acct, t) ==
    IF t.transaction_id \notin DOMAIN acct.transactions
    THEN Err(acct, "NonExistingTransactionId")
    ELSE LET original_transaction == acct.transactions[t.transaction_id] IN
         IF ~original_transaction.is_under_dispute
         THEN Err(acct, "NotUnderDispute")
         ELSE IF original_transaction.action_type = "Deposit"
         THEN Finish([acct EXCEPT
                !.available = @ + original_transaction.decimal[1],
                !.held = @ - original_transaction.decimal[1],
                !.transactions[t.transaction_id].is_under_dispute = FALSE])
         ELSE Err(acct, "UndefinedBehaviour")

HandleResolve(acct, t) ==
    IF t.transaction_id \notin DOMAIN acct.transactions
    THEN Err(acct, "NonExistingTransactionId")
    ELSE LET original_transaction == acct.transactions[t.transaction_id] IN
         IF original_transaction.action_type = "Deposit"
         THEN IF original_transaction.is_under_dispute
              THEN Finish([acct EXCEPT
                     !.available = @ + original_transaction.decimal[1],
                     !.held = @ - original_transaction.decimal[1],
                     !.transactions[t.transaction_id].is_under_dispute = FALSE])
              ELSE Err(acct, "NotUnderDispute")
         ELSE Err(acct, "UndefinedBehaviour")

\* mutant: the amount is taken from available instead of held
HandleChargeback_FromAvailable(acct, t) ==
    IF t.transaction_id \notin DOMAIN acct.transactions
    THEN Err(acct, "NonExistingTransactionId")
    ELSE LET original_transaction == acct.transactions[t.transaction_id] IN
         IF original_transaction.action_type = "Deposit"
         THEN IF original_transaction.is_under_dispute
              THEN Finish([acct EXCEPT
                     !.available = @ - original_transaction.decimal[1],
                     !.total = @ - original_transaction.decimal[1],
                     !.transactions[t.transaction_id].is_under_dispute = FALSE,
                     !.is_locked = TRUE])
              ELSE Err(acct, "NotUnderDispute")
         ELSE Err(acct, "UndefinedBehaviour")

\* mutant: the account is not locked
HandleChargeback_NoLock(acct, t) ==
    IF t.transaction_id \notin DOMAIN acct.transactions
    THEN Err(acct, "NonExistingTransactionId")
    ELSE LET original_transaction == acct.transactions[t.transaction_id] IN
         IF original_transaction.action_type = "Deposit"
         THEN IF original_transaction.is_under_dispute
              THEN Finish([acct EXCEPT
                     !.held = @ - original_transaction.decimal[1],
                     !.total = @ - original_transaction.decimal[1],
                     !.transactions[t.transaction_id].is_under_dispute = FALSE])
              ELSE Err(acct, "NotUnderDispute")
         ELSE Err(acct, "UndefinedBehaviour")

HandleChargeback(acct, t) ==
    IF t.transaction_id \notin DOMAIN acct.transactions
    THEN Err(acct, "NonExistingTransactionId")
    ELSE LET original_transaction == acct.transactions[t.transaction_id] IN
         IF original_transaction.action_type = "Deposit"
         THEN IF original_transaction.is_under_dispute
              THEN Finish([acct EXCEPT
                     !.held = @ - original_transaction.decimal[1],
                     !.total = @ - original_transaction.decimal[1],
                     !.transactions[t.transaction_id].is_under_dispute = FALSE,
                     !.is_locked = TRUE])
              ELSE Err(acct, "NotUnderDispute")
         ELSE Err(acct, "UndefinedBehaviour")

\* mutant: the lock is not checked
handle_transaction_NoLockCheck(acct, t) ==
    CASE t.action_type = "Deposit" -> HandleDeposit(acct, t)
      [] t.action_type = "Withdrawal" -> HandleWithdrawal(acct, t)
      [] t.action_type = "Dispute" -> HandleDispute(acct, t)
      [] t.action_type = "Resolve" -> HandleResolve(acct, t)
      [] t.action_type = "Chargeback" -> HandleChargeback(acct, t)

\* Account::handle_transaction: the account after the call and what it returned.
handle_transaction(acct, t) ==
    IF acct.is_locked THEN Err(acct, "LockedAccount")
    ELSE CASE t.action_type = "Deposit" -> HandleDeposit(acct, t)
           [] t.action_type = "Withdrawal" -> HandleWithdrawal(acct, t)
           [] t.action_type = "Dispute" -> HandleDispute(acct, t)
           [] t.action_type = "Resolve" -> HandleResolve(acct, t)
           [] t.action_type = "Chargeback" -> HandleChargeback(acct, t)

\* ---------------------------------------------------------------- state
VARIABLES
    account,    \* SpecAccount: the Account under test
    before,     \* SpecAccount: the account as it was before the latest call
    ncalls,     \* SpecAccount: number of handle_transaction calls made
    refused,    \* SpecAccount history: ids of the withdrawals refused with
                \* AccountBalanceNotEnough so far
    tx,         \* the latest transaction passed to handle_transaction
    result,     \* what that call returned ("None" outside the calls)
    clients,    \* Engine.clients: HashMap<ClientId, Account>
    pc,         \* Engine::process: "reading", "header", "rows", "done", "aborted"
    nread,      \* number of records taken from the reader
    seen,       \* client ids of the transactions read so far
    header,     \* TRUE once the header line has been written
    rows,       \* the account rows written so far, in order
    partition   \* history: per client, a fresh account fed that client's
                \* transactions only, in stream order

vars == <<account, before, ncalls, refused, tx, result, clients, pc, nread, seen,
         header, rows, partition>>

accountVars == <<account, before, ncalls, refused>>
engineVars == <<clients, pc, nread, seen, header, rows, partition>>

Init ==
    /\ account = AccountNew(1)
    /\ before = AccountNew(1)
    /\ ncalls = 0
    /\ refused = {}
    /\ tx = NoTransaction
    /\ result = "None"
    /\ clients = [c \in {} |-> AccountNew(c)]
    /\ pc = "reading"
    /\ nread = 0
    /\ seen = {}
    /\ header = FALSE
    /\ rows = <<>>
    /\ partition = [c \in ClientIds |-> AccountNew(c)]

\* ------------------------------------------------- SpecAccount: one account
Call(t) ==
    /\ ncalls < MaxCalls
    /\ LET r == handle_transaction(account, t) IN
        /\ account' = r.account
        /\ result' = r.result
    /\ before' = account
    /\ tx' = t
    /\ ncalls' = ncalls + 1
    /\ refused' = IF t.action_type = "Withdrawal" /\ result' = "AccountBalanceNotEnough"
                  THEN refused \cup {t.transaction_id}
                  ELSE refused
    /\ UNCHANGED engineVars

Deposit == \E t \in TransactionIds, amt \in Amounts :
    Call(from_record("Deposit", 1, t, amt))

Withdrawal == \E t \in TransactionIds, amt \in Amounts :
    Call(from_record("Withdrawal", 1, t, amt))

Dispute == \E t \in TransactionIds : Call(from_record("Dispute", 1, t, 0))

Resolve == \E t \in TransactionIds : Call(from_record("Resolve", 1, t, 0))

Chargeback == \E t \in TransactionIds : Call(from_record("Chargeback", 1, t, 0))

NextAccount == Deposit \/ Withdrawal \/ Dispute \/ Resolve \/ Chargeback

SpecAccount == Init /\ [][NextAccount]_vars

\* ------------------------------------------------- Spec: Engine::process
\* mutant: a refused withdrawal stops the run
Classify_BalanceFatal(r) ==
    IF r \in Fatal \cup {"AssertionFailed", "AccountBalanceNotEnough"}
    THEN "aborted" ELSE "reading"

\* What the loop does with the value handle_transaction returned.
Classify(r) ==
    IF r \in Fatal \cup {"AssertionFailed"} THEN "aborted" ELSE "reading"

\* mutant: the new account starts from the balances of a stored account
ProcessVacant_CopyAccount ==
    /\ pc = "reading"
    /\ nread < MaxRecords
    /\ \E c \in ClientIds \ DOMAIN clients : \E t \in TransactionsOf(c) :
        LET new_account == IF DOMAIN clients = {} THEN AccountNew(c)
                           ELSE [clients[CHOOSE a \in DOMAIN clients : TRUE]
                                    EXCEPT !.client_id = c]
            r == handle_transaction(new_account, t) IN
        /\ tx' = t
        /\ clients' = IF r.result = "Ok" THEN (c :> r.account) @@ clients ELSE clients
        /\ pc' = Classify(r.result)
        /\ result' = r.result
        /\ seen' = seen \cup {c}
        /\ partition' = [partition EXCEPT ![c] = handle_transaction(@, t).account]
    /\ nread' = nread + 1
    /\ UNCHANGED <<accountVars, header, rows>>

\* mutant: the account is inserted whatever handle_transaction returned
ProcessVacant_InsertAlways ==
    /\ pc = "reading"
    /\ nread < MaxRecords
    /\ \E c \in ClientIds \ DOMAIN clients : \E t \in TransactionsOf(c) :
        LET new_account == AccountNew(c)
            r == handle_transaction(new_account, t) IN
        /\ tx' = t
        /\ clients' = (c :> r.account) @@ clients
        /\ pc' = Classify(r.result)
        /\ result' = r.result
        /\ seen' = seen \cup {c}
        /\ partition' = [partition EXCEPT ![c] = handle_transaction(@, t).account]
    /\ nread' = nread + 1
    /\ UNCHANGED <<accountVars, header, rows>>

\* Entry::Vacant: a fresh account handles the transaction and is inserted
\* only when the call returned Ok.
ProcessVacant ==
    /\ pc = "reading"
    /\ nread < MaxRecords
    /\ \E c \in ClientIds \ DOMAIN clients : \E t \in TransactionsOf(c) :
        LET new_account == AccountNew(c)
            r == handle_transaction(new_account, t) IN
        /\ tx' = t
        /\ clients' = IF r.result = "Ok" THEN (c :> r.account) @@ clients ELSE clients
        /\ pc' = Classify(r.result)
        /\ result' = r.result
        /\ seen' = seen \cup {c}
        /\ partition' = [partition EXCEPT ![c] = handle_transaction(@, t).account]
    /\ nread' = nread + 1
    /\ UNCHANGED <<accountVars, header, rows>>

\* Entry::Occupied: the stored account handles the transaction in place.
ProcessOccupied ==
    /\ pc = "reading"
    /\ nread < MaxRecords
    /\ \E c \in DOMAIN clients : \E t \in TransactionsOf(c) :
        LET r == handle_transaction(clients[c], t) IN
        /\ tx' = t
        /\ clients' = [clients EXCEPT ![c] = r.account]
        /\ pc' = Classify(r.result)
        /\ result' = r.result
        /\ seen' = seen \cup {c}
        /\ partition' = [partition EXCEPT ![c] = handle_transaction(@, t).account]
    /\ nread' = nread + 1
    /\ UNCHANGED <<accountVars, header, rows>>

\* mutant: a record that cannot be decoded is skipped
ProcessMalformed_Skip ==
    /\ pc = "reading"
    /\ nread < MaxRecords
    /\ \E e \in {"UndefinedAction", "IntParseError", "DecimalParseError"} :
        result' = e
    /\ tx' = NoTransaction
    /\ pc' = "reading"
    /\ nread' = nread + 1
    /\ UNCHANGED <<accountVars, clients, seen, header, rows, partition>>

\* A record from_record cannot decode (unknown action keyword, unparsable
\* client id, transaction id or amount): the unwrap() at the head of the loop
\* panics and process never returns.
ProcessMalformed ==
    /\ pc = "reading"
    /\ nread < MaxRecords
    /\ \E e \in {"UndefinedAction", "IntParseError", "DecimalParseError"} :
        result' = e
    /\ tx' = NoTransaction
    /\ pc' = "aborted"
    /\ nread' = nread + 1
    /\ UNCHANGED <<accountVars, clients, seen, header, rows, partition>>

\* records().next() yields None: the loop ends, and with it the scope of the
\* transaction and the error of its last iteration.
EndOfStream ==
    /\ pc = "reading"
    /\ pc' = "header"
    /\ tx' = NoTransaction
    /\ result' = "None"
    /\ UNCHANGED <<accountVars, clients, nread, seen, header, rows, partition>>

WriteHeader ==
    /\ pc = "header"
    /\ header' = TRUE
    /\ pc' = "rows"
    /\ UNCHANGED <<accountVars, tx, result, clients, nread, seen, rows, partition>>

Row(c, acct) ==
    [client |-> c, available |-> acct.available, held |-> acct.held,
     total |-> acct.total, locked |-> acct.is_locked]

RowClients == {rows[i].client : i \in DOMAIN rows}

\* for (client_id, account) in &self.clients: HashMap iteration visits every
\* entry once, in an order the program does not control.
WriteRow ==
    /\ pc = "rows"
    /\ \E c \in DOMAIN clients \ RowClients :
        rows' = Append(rows, Row(c, clients[c]))
    /\ UNCHANGED <<accountVars, tx, result, clients, pc, nread, seen, header, partition>>

\* mutant: process returns before every row is written
Return_Early ==
    /\ pc = "rows"
    /\ pc' = "done"
    /\ UNCHANGED <<accountVars, tx, result, clients, nread, seen, header, rows, partition>>

Return ==
    /\ pc = "rows"
    /\ DOMAIN clients \subseteq RowClients
    /\ pc' = "done"
    /\ UNCHANGED <<accountVars, tx, result, clients, nread, seen, header, rows, partition>>

Next ==
    \/ ProcessVacant
    \/ ProcessOccupied
    \/ ProcessMalformed
    \/ EndOfStream
    \/ WriteHeader
    \/ WriteRow
    \/ Return

Spec == Init /\ [][Next]_vars

\* The runtime keeps driving process until it returns or panics.
FairSpec == Spec /\ WF_vars(Next)

\* ================================================================ claims
\* Helpers over the latest call of SpecAccount.
Called == ncalls > 0
StoredBefore == Called /\ tx.transaction_id \in DOMAIN before.transactions
Balances(acct) == <<acct.available, acct.held, acct.total>>
DisputeFamily == {"Dispute", "Resolve", "Chargeback"}

C2_NoDoubleHold ==
    (/\ StoredBefore
     /\ tx.action_type = "Dispute"
     /\ before.transactions[tx.transaction_id].action_type = "Deposit"
     /\ before.transactions[tx.transaction_id].is_under_dispute)
    => (account.available >= before.available /\ account.held <= before.held)

\* C3 (as claimed): when process returns Ok, the snapshot holds exactly one
\* row for every client id that appeared in the stream.
C3_RowPerClientSeen ==
    pc = "done" =>
        /\ RowClients = seen
        /\ \A c \in seen : Cardinality({i \in DOMAIN rows : rows[i].client = c}) = 1

\* C4: whenever handle_transaction returns an error, the account (balances,
\* lock, stored ids and every stored transaction) is as it was before the call.
C4_ErrorLeavesAccount ==
    (Called /\ result \in Recoverable) => account = before

\* C4 witness: a withdrawal was refused for lack of funds on an account that
\* has stored transactions and held funds.
C4_Witness ==
    /\ result = "AccountBalanceNotEnough"
    /\ before.held > 0
    /\ Cardinality(DOMAIN before.transactions) >= 2
    /\ account = before

\* C5: on a locked account every action fails with LockedAccount, before any
\* other check, and changes nothing.
C5_LockedRejectsAll ==
    (Called /\ before.is_locked) => (result = "LockedAccount" /\ account = before)

\* C5 witness: a deposit reusing a stored id was sent to a locked account and
\* was refused for the lock, not for the duplicate id.
C5_Witness ==
    /\ StoredBefore
    /\ before.is_locked
    /\ tx.action_type = "Deposit"
    /\ result = "LockedAccount"

\* The step handed to handle_transaction is a Withdrawal, under a fresh id,
\* of the amount of the Deposit that was accepted by the call before it.
WithdrawalAfterDeposit ==
    /\ Called
    /\ tx.action_type = "Deposit"
    /\ result = "Ok"
    /\ tx'.action_type = "Withdrawal"
    /\ tx'.decimal = tx.decimal
    /\ tx'.transaction_id \notin DOMAIN account.transactions

DepositUndone ==
    /\ result' = "Ok"
    /\ Balances(account') = Balances(before)

\* C6 (as claimed): from any reachable state, an accepted Deposit followed
\* immediately by a Withdrawal of the same amount under a fresh id is accepted
\* too and restores available, held and total.
C6_DepositThenWithdrawal ==
    [][WithdrawalAfterDeposit => DepositUndone]_vars

\* C6 (amended): the same, from states whose available is not negative.
C6_DepositThenWithdrawalNonNeg ==
    [][(WithdrawalAfterDeposit /\ before.available >= 0) => DepositUndone]_vars

\* C6 witness: the second of two calls was the accepted withdrawal of the
\* amount that the first call deposited.
C6_Witness ==
    /\ ncalls = 2
    /\ tx.action_type = "Withdrawal"
    /\ result = "Ok"
    /\ tx.decimal[1] > 0
    /\ \E d \in DOMAIN before.transactions :
        /\ DOMAIN before.transactions = {d}
        /\ before.transactions[d].action_type = "Deposit"
        /\ before.transactions[d].decimal = tx.decimal
    /\ Balances(account) = <<0, 0, 0>>

DuplicateRejected ==
    /\ result = "DuplicatedTransactionId"
    /\ account = before

\* C7 (as claimed): a Deposit or Withdrawal whose id is already stored is
\* rejected with DuplicatedTransactionId and changes no state.
C7_DuplicateId ==
    (StoredBefore /\ tx.action_type \in {"Deposit", "Withdrawal"})
    => DuplicateRejected

\* C7 (amended): the same on an unlocked account; for a Withdrawal the
\* duplicate id is reported whatever the balance.
C7_DuplicateIdUnlocked ==
    (StoredBefore /\ tx.action_type \in {"Deposit", "Withdrawal"} /\ ~before.is_locked)
    => DuplicateRejected

\* C7 witness: a Withdrawal of more than is available reused the id of a
\* stored deposit and was refused as a duplicate.
C7_Witness ==
    /\ StoredBefore
    /\ tx.action_type = "Withdrawal"
    /\ before.transactions[tx.transaction_id].action_type = "Deposit"
    /\ tx.decimal[1] > before.available
    /\ result = "DuplicatedTransactionId"

\* C8: a Withdrawal under a fresh id on an unlocked account fails with
\* AccountBalanceNotEnough exactly when amount > available, changing nothing;
\* otherwise it succeeds, takes amount from available and total, leaves held.
C8_Withdrawal ==
    (/\ Called
     /\ tx.action_type = "Withdrawal"
     /\ ~before.is_locked
     /\ tx.transaction_id \notin DOMAIN before.transactions)
    => IF tx.decimal[1] > before.available
       THEN result = "AccountBalanceNotEnough" /\ Balances(account) = Balances(before)
       ELSE /\ result = "Ok"
            /\ account.available = before.available - tx.decimal[1]
            /\ account.total = before.total - tx.decimal[1]
            /\ account.held = before.held

\* C8 witness: a withdrawal that total would cover but available does not
\* was refused.
C8_Witness ==
    /\ Called
    /\ tx.action_type = "Withdrawal"
    /\ tx.transaction_id \notin DOMAIN before.transactions
    /\ tx.decimal[1] > before.available
    /\ tx.decimal[1] <= before.total
    /\ result = "AccountBalanceNotEnough"

\* C9: a successful Dispute on a stored deposit moves exactly the stored
\* amount from available to held, leaves total, the lock and every other
\* stored transaction as they were, and sets the deposit's dispute flag.
C9_Dispute ==
    (/\ StoredBefore
     /\ tx.action_type = "Dispute"
     /\ result = "Ok")
    => LET id == tx.transaction_id
           amount == before.transactions[id].decimal[1] IN
       /\ before.transactions[id].action_type = "Deposit"
       /\ account.available = before.available - amount
       /\ account.held = before.held + amount
       /\ account.total = before.total
       /\ account.is_locked = before.is_locked
       /\ DOMAIN account.transactions = DOMAIN before.transactions
       /\ \A o \in DOMAIN before.transactions \ {id} :
            account.transactions[o] = before.transactions[o]
       /\ account.transactions[id] =
            [before.transactions[id] EXCEPT !.is_under_dispute = TRUE]

\* C9 witness: a deposit of a positive amount was disputed while another
\* transaction was stored.
C9_Witness ==
    /\ StoredBefore
    /\ tx.action_type = "Dispute"
    /\ result = "Ok"
    /\ before.transactions[tx.transaction_id].decimal[1] > 0
    /\ ~before.transactions[tx.transaction_id].is_under_dispute
    /\ Cardinality(DOMAIN before.transactions) >= 2

\* The step handed to handle_transaction is Dispute(t) for a stored deposit t
\* that is not under dispute, on an unlocked account.
DisputeOfCalmDeposit ==
    /\ tx'.action_type = "Dispute"
    /\ ~account.is_locked
    /\ tx'.transaction_id \in DOMAIN account.transactions
    /\ account.transactions[tx'.transaction_id].action_type = "Deposit"
    /\ ~account.transactions[tx'.transaction_id].is_under_dispute

\* The latest call was such a Dispute(t) and the step is Resolve(t).
ResolveAfterDispute ==
    /\ StoredBefore
    /\ tx.action_type = "Dispute"
    /\ ~before.is_locked
    /\ before.transactions[tx.transaction_id].action_type = "Deposit"
    /\ ~before.transactions[tx.transaction_id].is_under_dispute
    /\ tx'.action_type = "Resolve"
    /\ tx'.transaction_id = tx.transaction_id

\* C10: from an unlocked state where deposit t is not under dispute,
\* Dispute(t) succeeds, and Resolve(t) right after it succeeds and restores
\* available, held, total and t's dispute flag (false).
C10_ResolveReversesDispute ==
    [][/\ DisputeOfCalmDeposit => result' = "Ok"
       /\ ResolveAfterDispute =>
            /\ result' = "Ok"
            /\ Balances(account') = Balances(before)
            /\ account'.transactions[tx.transaction_id].is_under_dispute = FALSE]_vars

\* C10 witness: three calls, the last an accepted Resolve of a deposit of a
\* positive amount: Deposit(t), Dispute(t), Resolve(t).
C10_Witness ==
    /\ ncalls = 3
    /\ tx.action_type = "Resolve"
    /\ result = "Ok"
    /\ DOMAIN account.transactions = {tx.transaction_id}
    /\ account.transactions[tx.transaction_id].decimal[1] > 0
    /\ ~account.transactions[tx.transaction_id].is_under_dispute
    /\ account.held = 0

\* C11: a successful Chargeback on a deposit under dispute takes the deposit's
\* amount from held and from total, leaves available, clears the deposit's
\* dispute flag and locks the account.
C11_Chargeback ==
    (/\ StoredBefore
     /\ tx.action_type = "Chargeback"
     /\ result = "Ok")
    => LET id == tx.transaction_id
           amount == before.transactions[id].decimal[1] IN
       /\ before.transactions[id].action_type = "Deposit"
       /\ before.transactions[id].is_under_dispute
       /\ account.held = before.held - amount
       /\ account.total = before.total - amount
       /\ account.available = before.available
       /\ account.transactions[id].is_under_dispute = FALSE
       /\ account.is_locked

\* C11 witness: a disputed deposit of a positive amount was charged back while
\* the account had funds available.
C11_Witness ==
    /\ StoredBefore
    /\ tx.action_type = "Chargeback"
    /\ result = "Ok"
    /\ before.transactions[tx.transaction_id].decimal[1] > 0
    /\ before.available > 0
    /\ account.is_locked

\* What C12 expects of a Dispute, Resolve or Chargeback on account acct.
ExpectedOutcome(acct, t) ==
    IF t.transaction_id \notin DOMAIN acct.transactions
    THEN "NonExistingTransactionId"
    ELSE IF acct.transactions[t.transaction_id].action_type = "Withdrawal"
    THEN "UndefinedBehaviour"
    ELSE IF /\ t.action_type \in {"Resolve", "Chargeback"}
            /\ ~acct.transactions[t.transaction_id].is_under_dispute
    THEN "NotUnderDispute"
    ELSE "Ok"

C17_LockPermanent ==
    [][/\ (account'.is_locked /\ ~account.is_locked)
            => (tx'.action_type = "Chargeback" /\ result' = "Ok")
       /\ (tx'.action_type = "Chargeback" /\ result' = "Ok") => account'.is_locked
       /\ account.is_locked => account' = account
       /\ (ncalls = 0) => ~account.is_locked]_vars

\* C17 witness: a call was made on an account locked by an earlier Chargeback.
C17_Witness ==
    /\ ncalls = 4
    /\ before.is_locked
    /\ account.is_locked
    /\ tx.action_type \in {"Deposit", "Resolve"}
    /\ account = before

Dispatched == nread' = nread + 1 /\ tx' # NoTransaction
\* The account that handles a transaction of client c.
AccountOf(c) == IF c \in DOMAIN clients THEN clients[c] ELSE AccountNew(c)

\* C13: output is written only once reading has ended and no record is read
\* after that; a record that cannot be decoded stops the run, after which
\* nothing is applied and nothing is written.
C13_OutputGated ==
    [][/\ (header' \/ rows' # <<>>) => pc' \in {"rows", "done"}
       /\ (nread' # nread) => (pc = "reading" /\ ~header /\ rows = <<>>)
       /\ (nread' # nread /\ result' \in Fatal) => pc' = "aborted"
       /\ (pc = "aborted") => UNCHANGED vars]_vars

\* C13 witness: the run stopped at a malformed record after earlier records
\* had been applied, with nothing written.
C13_Witness ==
    /\ pc = "aborted"
    /\ result \in Fatal
    /\ nread >= 2
    /\ DOMAIN clients # {}
    /\ ~header
    /\ rows = <<>>

ForeignId == Called /\ tx.transaction_id \notin DOMAIN before.transactions

IdsPerClient ==
    [][Dispatched =>
        LET c == tx'.client_id
            id == tx'.transaction_id
            own == AccountOf(c)
            elsewhere == \E a \in DOMAIN clients \ {c} :
                            id \in DOMAIN clients[a].transactions IN
        (elsewhere /\ id \notin DOMAIN own.transactions) =>
            /\ tx'.action_type \in {"Deposit", "Withdrawal"}
                    => result' # "DuplicatedTransactionId"
            /\ (tx'.action_type \in DisputeFamily /\ ~own.is_locked)
                    => result' = "NonExistingTransactionId"
            /\ tx'.action_type \in DisputeFamily
                    => \A a \in DOMAIN clients \ {c} :
                            a \in DOMAIN clients' /\ clients'[a] = clients[a]]_vars

Final == pc \in {"done", "aborted"}

\* C19: every run ends, and stays, in one of two states: the stream was
\* consumed and the header and a row for every account were written, or the
\* run stopped at a record that could not be decoded, with nothing written.
C19_Terminates ==
    /\ <>[]Final
    /\ [](pc = "done" => (header /\ RowClients = DOMAIN clients))
    /\ [](pc = "aborted" => (result \in Fatal /\ ~header /\ rows = <<>>))

\* C19 witness: process returned after the whole stream was read, with the
\* header and the rows of both accounts written.
C19_Witness ==
    /\ pc = "done"
    /\ nread = MaxRecords
    /\ DOMAIN clients = {1, 2}
    /\ Len(rows) = 2
    /\ header

\* C20: a client id enters the account map exactly when a transaction of that
\* client is applied successfully, never leaves it, and the snapshot has rows
\* for exactly the ids in the map; until then every attempt of the client is
\* handled by a fresh account.
C20_InsertedOnSuccess ==
    [][/\ DOMAIN clients' = DOMAIN clients \cup
            (IF Dispatched /\ result' = "Ok" THEN {tx'.client_id} ELSE {})
       /\ (Dispatched /\ tx'.client_id \notin DOMAIN clients)
            => result' = handle_transaction(AccountNew(tx'.client_id), tx').result
       /\ pc' = "done" => RowClients' = DOMAIN clients']_vars

\* C20 witness: the first record of a client was rejected, the second was an
\* accepted deposit that put the client into the map.
C20_Witness ==
    /\ nread = 2
    /\ seen = {1}
    /\ DOMAIN clients = {1}
    /\ tx.action_type = "Deposit"
    /\ result = "Ok"
    /\ tx.decimal[1] > 0
    /\ clients[1].total = tx.decimal[1]

\* Every amount the account has accepted, that is every stored amount, is
\* non-negative.
NonNegativeAmounts(acct) ==
    \A d \in DOMAIN acct.transactions :
        acct.transactions[d].decimal # <<>> => acct.transactions[d].decimal[1] >= 0

\* C21 (as claimed): with non-negative deposit and withdrawal amounts,
\* available is never negative.
C21_AvailableNonNegative ==
    NonNegativeAmounts(account) => account.available >= 0

\* C22 (as claimed): with non-negative deposit and withdrawal amounts, total
\* is never negative.
C22_TotalNonNegative ==
    NonNegativeAmounts(account) => account.total >= 0

\* The stored deposits whose dispute flag is set, and the sum of the amounts
\* of a set of stored transactions.
DisputedDeposits(acct) ==
    {d \in DOMAIN acct.transactions :
        /\ acct.transactions[d].action_type = "Deposit"
        /\ acct.transactions[d].is_under_dispute}

RECURSIVE SumOfAmounts(_, _)
SumOfAmounts(acct, ids) ==
    IF ids = {} THEN 0
    ELSE LET d == CHOOSE x \in ids : TRUE IN
         acct.transactions[d].decimal[1] + SumOfAmounts(acct, ids \ {d})

\* C23 (as claimed, read with every accepted amount non-negative): held is
\* the sum of the amounts of the stored deposits under dispute, and is never
\* negative.
C23_HeldIsDisputedSum ==
    NonNegativeAmounts(account) =>
        /\ account.held = SumOfAmounts(account, DisputedDeposits(account))
        /\ account.held >= 0

\* The latest call names an id under which a Withdrawal was refused with
\* AccountBalanceNotEnough, in this call or an earlier one.
ReusesRefusedId == Called /\ tx.transaction_id \in refused

====
